---- MODULE Spec2Model ----
\* A model of the Dashboard component of frontend/src/App.js: its React state,
\* the fetchData cycle with its suspension points, the poll timer installed by
\* useEffect, and the five write entry points with their continuations.
\* Each action is one run of JavaScript between two suspension points (await),
\* or one answer of the server to a request in flight.
EXTENDS Integers, FiniteSets, Sequences, TLC

\* ---------------------------------------------------------------- bounds
\* fetchData invocations over a run
MaxStarts == 3
\* fetchData invocations in flight at the same time
MaxInFlight == 2
\* write requests sent over a run (also the number that can be in flight)
MaxWrites == 1
\* reads of one fetchData invocation that are answered with a non-success status
MaxNotOk == 1

\* ---------------------------------------------------------------- values
\* null and undefined of JavaScript, told apart from every number in use
Null == 0 - 1
Undefined == 0 - 2
\* config before the first answer (line 17: useState(null))
NullConfig == [run_hour |-> Null, run_minute |-> Null, dry_run |-> FALSE]
NoAlert == "none"
Ids == {1, 2}
Multipliers == {1, 2}
\* NaN of JavaScript, told apart from every number in use
NaN == 0 - 3
\* what the operator can leave in the input of the row being edited (lines
\* 381-386, type="number": its value is a decimal numeral or the empty string)
Drafts == {"", "1", "2"}
\* parseFloat (line 405) on those values
parseFloat(text) ==
  CASE text = "1" -> 1
    [] text = "2" -> 2
    [] OTHER -> NaN
\* a number as JSON.stringify writes it into a request body (lines 86, 112):
\* NaN is written as null
Stringified(x) == IF x = NaN THEN Null ELSE x
Resources == {"stats", "employees", "config", "logs"}
\* position of each slice in the body of fetchData (lines 40, 52, 56, 60)
Order == [stats |-> 1, employees |-> 2, config |-> 3, logs |-> 4]

\* x || d  of JavaScript on the values a stats payload can hold
OrElse(x, d) == IF x \in {Undefined, Null, 0} THEN d ELSE x

\* setStats argument built from the parsed body (lines 42-49)
StatsFrom(statsData) ==
  [total_employees              |-> OrElse(statsData.total_employees, 0),
   active_employees             |-> OrElse(statsData.active_employees, 0),
   last_run                     |-> OrElse(statsData.last_run, Null),
   next_run                     |-> OrElse(statsData.next_run, Null),
   total_hours_added_this_week  |-> OrElse(statsData.total_hours_added_this_week, 0),
   total_hours_added_this_month |-> OrElse(statsData.total_hours_added_this_month, 0)]

\* useState initial value of stats (lines 8-15)
InitialStats ==
  [total_employees |-> 0, active_employees |-> 0, last_run |-> Null,
   next_run |-> Null, total_hours_added_this_week |-> 0,
   total_hours_added_this_month |-> 0]


\* ---------------------------------------------------------------- server payloads
\* The body /api/stats answers with: some fields absent, null or zero.
StatsPayload ==
  [total_employees |-> 2, active_employees |-> 0, last_run |-> 7,
   next_run |-> Undefined, total_hours_added_this_week |-> Undefined,
   total_hours_added_this_month |-> Null]
\* The body /api/logs?limit=50 answers with.
LogsPayload == <<[id |-> 1, status |-> "success"]>>
Configs ==
  {[run_hour |-> 2, run_minute |-> 0, dry_run |-> TRUE],
   [run_hour |-> 3, run_minute |-> 30, dry_run |-> FALSE]}
Absent == [multiplier |-> 0, active |-> FALSE]
\* the employees the server holds when the component is constructed: employee
\* 1 alone, or employees 1 and 2
ServerStarts ==
  {[i \in Ids |-> IF i = 1 THEN [multiplier |-> 1, active |-> TRUE] ELSE Absent],
   [i \in Ids |-> [multiplier |-> i, active |-> (i = 1)]]}
\* external identifiers the operator can type, and the employee each names
ExternalIds == {"", "e2"}
IdOf(ext) == IF ext = "e2" THEN 2 ELSE 0

VARIABLES
  \* React state of Dashboard (lines 8-23)
  stats, employees, config, logs, loading,
  showAddEmployee, newEmployeeId, editingEmployee,
  \* the effect of lines 71-75: the component's life and its interval
  phase, interval,
  \* fetchData invocations: cyc[n] is the n-th, nStarted counts them
  cyc, nStarted,
  \* write requests: wr[n] is the n-th, nWrites counts them
  wr, nWrites,
  \* window.alert: the message shown by the last step, NoAlert when none
  alertMsg,
  \* the server's employees and configuration
  srvEmployees, srvConfig,
  \* history: the fetchData invocation that last set each slice (0: none)
  setBy,
  \* history: the step taken last
  last

snapshot == <<stats, employees, config, logs>>
addForm == <<showAddEmployee, newEmployeeId>>
local == <<stats, employees, config, logs, loading, showAddEmployee,
           newEmployeeId, editingEmployee>>
server == <<srvEmployees, srvConfig>>
vars == <<stats, employees, config, logs, loading, showAddEmployee,
          newEmployeeId, editingEmployee, phase, interval, cyc, nStarted,
          wr, nWrites, alertMsg, srvEmployees, srvConfig, setBy, last>>

\* ---------------------------------------------------------------- responses
Pending == [st |-> "pending", body |-> Null]
NotOk == [st |-> "bad", body |-> Null]
Ok(b) == [st |-> "ok", body |-> b]

\* a write request: its endpoint (kind), where its caller stands (pc), its
\* body (ext, id, field, multiplier, active, cfg) and, as history, the text
\* the multiplier was parsed from (draft), how it ended (then) and the
\* invocation that had set employees at that time (seen)
IdleWrite == [kind |-> "none", pc |-> "idle", ext |-> "", id |-> 0,
              field |-> "none", multiplier |-> 0, active |-> FALSE,
              cfg |-> NullConfig, draft |-> "", then |-> "none", seen |-> 0]

\* a fetchData invocation: where it stands (pc), who called it (origin), the
\* responses of its four reads (res) and, as history, the slices it has set
IdleCycle == [pc |-> "idle", origin |-> "none",
              res |-> [r \in Resources |-> Pending], applied |-> {}]
DoneCycle(c) == [IdleCycle EXCEPT !.pc = "done", !.origin = cyc[c].origin]

\* the array GET /api/employees answers with
EmployeeList(srv) ==
  {[id |-> i, multiplier |-> srv[i].multiplier, active |-> srv[i].active] :
     i \in {j \in Ids : srv[j] # Absent}}

\* the status of each read of invocation c
Statuses(c) == [r \in Resources |-> cyc[c].res[r].st]
NoStatuses == [r \in Resources |-> "none"]

\* what the history variable last records of a step
Event(op, n) ==
  [op |-> op, n |-> n, st |-> NoStatuses, res |-> "none", applied |-> {}]
CycleEvent(op, c, app) ==
  [op |-> op, n |-> c, st |-> Statuses(c), res |-> "none", applied |-> app]
WriteEvent(op, w, res) ==
  [op |-> op, n |-> w, st |-> NoStatuses, res |-> res, applied |-> {}]

InFlight == {c \in 1..MaxStarts : cyc[c].pc \notin {"idle", "done"}}

\* ---------------------------------------------------------------- fetchData
\* lines 26-38: a call of fetchData issues the four reads and suspends
fetchData(origin) ==
  /\ nStarted < MaxStarts
  /\ Cardinality(InFlight) < MaxInFlight
  /\ nStarted' = nStarted + 1
  /\ cyc' = [cyc EXCEPT ![nStarted + 1] =
               [IdleCycle EXCEPT !.pc = "await", !.origin = origin]]

\* the first slice from position k on whose response is ok: the next await
\* res.json() that lines 40-62 reach; "end" when line 64 is reached
NextJson(res, k) ==
  LET later == {r \in Resources : Order[r] >= k /\ res[r].st = "ok"}
  IN IF later = {} THEN "end"
     ELSE CHOOSE r \in later : \A q \in later : Order[r] <= Order[q]

\* RunFrom without the setLoading(false) of line 64
RunFrom_KeepsLoading(c, k, app) ==
  LET nxt == NextJson(cyc[c].res, k)
  IN IF nxt = "end"
     THEN /\ loading' = loading
          /\ cyc' = [cyc EXCEPT ![c] = DoneCycle(c)]
     ELSE /\ loading' = loading
          /\ cyc' = [cyc EXCEPT ![c].pc = nxt, ![c].applied = app]

\* lines 40-64 run from position k to the next suspension point
\* app: the slices the invocation has set by then
RunFrom(c, k, app) ==
  LET nxt == NextJson(cyc[c].res, k)
  IN IF nxt = "end"
     THEN /\ loading' = FALSE
          /\ cyc' = [cyc EXCEPT ![c] = DoneCycle(c)]
     ELSE /\ loading' = loading
          /\ cyc' = [cyc EXCEPT ![c].pc = nxt, ![c].applied = app]

\* FetchResolved with every slice whose read was not answered with success
\* put back to its initial value
FetchResolved_Defaults(c) ==
  /\ cyc[c].pc = "await"
  /\ \A r \in Resources : cyc[c].res[r].st \in {"ok", "bad"}
  /\ RunFrom(c, 1, {})
  /\ stats' = IF cyc[c].res["stats"].st = "bad" THEN InitialStats ELSE stats
  /\ employees' = IF cyc[c].res["employees"].st = "bad" THEN {} ELSE employees
  /\ config' = IF cyc[c].res["config"].st = "bad" THEN NullConfig ELSE config
  /\ logs' = IF cyc[c].res["logs"].st = "bad" THEN <<>> ELSE logs
  /\ last' = CycleEvent("FetchResolved", c, cyc[c].applied)
  /\ alertMsg' = NoAlert
  /\ UNCHANGED <<addForm, editingEmployee, phase, interval,
                 nStarted, wr, nWrites, server, setBy>>

\* line 33: Promise.all resolves once the four reads have a response
FetchResolved(c) ==
  /\ cyc[c].pc = "await"
  /\ \A r \in Resources : cyc[c].res[r].st \in {"ok", "bad"}
  /\ RunFrom(c, 1, {})
  /\ last' = CycleEvent("FetchResolved", c, cyc[c].applied)
  /\ alertMsg' = NoAlert
  /\ UNCHANGED <<snapshot, addForm, editingEmployee, phase, interval,
                 nStarted, wr, nWrites, server, setBy>>

\* ReadFails with the reads that were answered with success still applied, as
\* Promise.allSettled would allow
ReadFails_AppliesAnswered(c, r) ==
  /\ cyc[c].pc = "await"
  /\ stats' = IF r # "stats" /\ cyc[c].res["stats"].st = "ok"
              THEN StatsFrom(cyc[c].res["stats"].body) ELSE stats
  /\ employees' = IF r # "employees" /\ cyc[c].res["employees"].st = "ok"
                  THEN cyc[c].res["employees"].body ELSE employees
  /\ config' = IF r # "config" /\ cyc[c].res["config"].st = "ok"
               THEN cyc[c].res["config"].body ELSE config
  /\ logs' = IF r # "logs" /\ cyc[c].res["logs"].st = "ok"
             THEN cyc[c].res["logs"].body ELSE logs
  /\ loading' = FALSE
  /\ cyc' = [cyc EXCEPT ![c] = DoneCycle(c)]
  /\ last' = CycleEvent("ReadFails", c, cyc[c].applied)
  /\ alertMsg' = NoAlert
  /\ UNCHANGED <<addForm, editingEmployee, phase, interval,
                 nStarted, wr, nWrites, server, setBy>>

\* lines 33-38, 65-68: read r fails in transport (its request or its response
\* is lost), Promise.all rejects and the catch block runs; the other reads,
\* answered or not, are no longer awaited
ReadFails(c, r) ==
  /\ cyc[c].pc = "await"
  /\ loading' = FALSE
  /\ cyc' = [cyc EXCEPT ![c] = DoneCycle(c)]
  /\ last' = CycleEvent("ReadFails", c, cyc[c].applied)
  /\ alertMsg' = NoAlert
  /\ UNCHANGED <<snapshot, addForm, editingEmployee, phase, interval,
                 nStarted, wr, nWrites, server, setBy>>

\* lines 40-50: statsRes.json() resolves, setStats, on to the next await
SetStats(c) ==
  /\ cyc[c].pc = "stats"
  /\ stats' = StatsFrom(cyc[c].res["stats"].body)
  /\ setBy' = [setBy EXCEPT !["stats"] = c]
  /\ RunFrom(c, 2, cyc[c].applied \cup {"stats"})
  /\ last' = CycleEvent("SetStats", c, cyc[c].applied \cup {"stats"})
  /\ alertMsg' = NoAlert
  /\ UNCHANGED <<employees, config, logs, addForm, editingEmployee, phase,
                 interval, nStarted, wr, nWrites, server>>

\* lines 52-54
SetEmployees(c) ==
  /\ cyc[c].pc = "employees"
  /\ employees' = cyc[c].res["employees"].body
  /\ setBy' = [setBy EXCEPT !["employees"] = c]
  /\ RunFrom(c, 3, cyc[c].applied \cup {"employees"})
  /\ last' = CycleEvent("SetEmployees", c, cyc[c].applied \cup {"employees"})
  /\ alertMsg' = NoAlert
  /\ UNCHANGED <<stats, config, logs, addForm, editingEmployee, phase,
                 interval, nStarted, wr, nWrites, server>>

\* lines 56-58
SetConfig(c) ==
  /\ cyc[c].pc = "config"
  /\ config' = cyc[c].res["config"].body
  /\ setBy' = [setBy EXCEPT !["config"] = c]
  /\ RunFrom(c, 4, cyc[c].applied \cup {"config"})
  /\ last' = CycleEvent("SetConfig", c, cyc[c].applied \cup {"config"})
  /\ alertMsg' = NoAlert
  /\ UNCHANGED <<stats, employees, logs, addForm, editingEmployee, phase,
                 interval, nStarted, wr, nWrites, server>>

\* lines 60-64
SetLogs(c) ==
  /\ cyc[c].pc = "logs"
  /\ logs' = cyc[c].res["logs"].body
  /\ setBy' = [setBy EXCEPT !["logs"] = c]
  /\ RunFrom(c, 5, cyc[c].applied \cup {"logs"})
  /\ last' = CycleEvent("SetLogs", c, cyc[c].applied \cup {"logs"})
  /\ alertMsg' = NoAlert
  /\ UNCHANGED <<stats, employees, config, addForm, editingEmployee, phase,
                 interval, nStarted, wr, nWrites, server>>

\* JsonRejected with a try block of its own around each res.json(): the slice
\* whose body cannot be read is skipped and the invocation goes on
JsonRejected_Continues(c) ==
  /\ cyc[c].pc \in Resources
  /\ RunFrom(c, Order[cyc[c].pc] + 1, cyc[c].applied)
  /\ last' = CycleEvent("JsonRejected", c, cyc[c].applied)
  /\ alertMsg' = NoAlert
  /\ UNCHANGED <<snapshot, addForm, editingEmployee, phase, interval,
                 nStarted, wr, nWrites, server, setBy>>

\* JsonRejected whose catch block calls fetchData again
JsonRejected_Retries(c) ==
  /\ cyc[c].pc \in Resources
  /\ nStarted < MaxStarts
  /\ loading' = FALSE
  /\ nStarted' = nStarted + 1
  /\ cyc' = [cyc EXCEPT ![c] = DoneCycle(c),
                        ![nStarted + 1] =
                           [IdleCycle EXCEPT !.pc = "await", !.origin = "retry"]]
  /\ last' = CycleEvent("JsonRejected", c, cyc[c].applied)
  /\ alertMsg' = NoAlert
  /\ UNCHANGED <<snapshot, addForm, editingEmployee, phase, interval,
                 wr, nWrites, server, setBy>>

\* lines 41, 53, 57, 61 with 65-68: the awaited res.json() rejects
JsonRejected(c) ==
  /\ cyc[c].pc \in Resources
  /\ loading' = FALSE
  /\ cyc' = [cyc EXCEPT ![c] = DoneCycle(c)]
  /\ last' = CycleEvent("JsonRejected", c, cyc[c].applied)
  /\ alertMsg' = NoAlert
  /\ UNCHANGED <<snapshot, addForm, editingEmployee, phase, interval,
                 nStarted, wr, nWrites, server, setBy>>

\* ---------------------------------------------------------------- reads served
\* what the endpoint of slice r reports at this moment
Payload(r) ==
  CASE r = "stats" -> StatsPayload
    [] r = "employees" -> EmployeeList(srvEmployees)
    [] r = "config" -> srvConfig
    [] r = "logs" -> LogsPayload

\* The component reads the four responses only once all of them have arrived
\* (line 33), so the order in which the server produces them is not observable:
\* the four answers to the GETs of lines 34-37 are taken at one moment.
\* bad is the set of reads answered with a non-success status.
Answers(bad) == [r \in Resources |-> IF r \in bad THEN NotOk ELSE Ok(Payload(r))]

\* the server answers the four reads with success
ReadsAnswered(c) ==
  /\ cyc[c].pc = "await"
  /\ \A r \in Resources : cyc[c].res[r].st = "pending"
  /\ cyc' = [cyc EXCEPT ![c].res = Answers({})]
  /\ last' = Event("ReadsAnswered", c)
  /\ alertMsg' = NoAlert
  /\ UNCHANGED <<local, phase, interval, nStarted, wr, nWrites, server, setBy>>

\* the server answers the reads of bad with a non-success status
ReadsRefused(c, bad) ==
  /\ cyc[c].pc = "await"
  /\ \A r \in Resources : cyc[c].res[r].st = "pending"
  /\ bad # {}
  /\ Cardinality(bad) <= MaxNotOk
  /\ cyc' = [cyc EXCEPT ![c].res = Answers(bad)]
  /\ last' = Event("ReadsRefused", c)
  /\ alertMsg' = NoAlert
  /\ UNCHANGED <<local, phase, interval, nStarted, wr, nWrites, server, setBy>>

\* ---------------------------------------------------------------- useEffect
\* lines 71-73: the effect runs once after the first render
Mount ==
  /\ phase = "new"
  /\ phase' = "mounted"
  /\ fetchData("mount")
  /\ interval' = TRUE
  /\ last' = Event("Mount", nStarted + 1)
  /\ alertMsg' = NoAlert
  /\ UNCHANGED <<local, wr, nWrites, server, setBy>>

\* line 73: the interval elapses and calls fetchData
Tick ==
  /\ interval
  /\ fetchData("timer")
  /\ last' = Event("Tick", nStarted + 1)
  /\ alertMsg' = NoAlert
  /\ UNCHANGED <<local, phase, interval, wr, nWrites, server, setBy>>

\* Unmount without the clearInterval of line 74
Unmount_KeepsInterval ==
  /\ phase = "mounted"
  /\ phase' = "unmounted"
  /\ interval' = interval
  /\ last' = Event("Unmount", 0)
  /\ alertMsg' = NoAlert
  /\ UNCHANGED <<local, cyc, nStarted, wr, nWrites, server, setBy>>

\* line 74: the cleanup of the effect, run when the component unmounts.
\* It clears the interval and nothing else: an invocation of fetchData in
\* flight keeps the setters it closed over and goes on to call them.
Unmount ==
  /\ phase = "mounted"
  /\ phase' = "unmounted"
  /\ interval' = FALSE
  /\ last' = Event("Unmount", 0)
  /\ alertMsg' = NoAlert
  /\ UNCHANGED <<local, cyc, nStarted, wr, nWrites, server, setBy>>



\* ---------------------------------------------------------------- the view
\* lines 185-196: the controls exist once loading is false, while mounted
Rendered == phase = "mounted" /\ ~loading
\* lines 369-370: one table row per employee of the list
Row(id) == \E e \in employees : e.id = id
RowOf(id) == CHOOSE e \in employees : e.id = id

\* line 309
OpenAddForm ==
  /\ Rendered
  /\ showAddEmployee' = TRUE
  /\ last' = Event("OpenAddForm", 0)
  /\ alertMsg' = NoAlert
  /\ UNCHANGED <<snapshot, loading, newEmployeeId, editingEmployee, phase,
                 interval, cyc, nStarted, wr, nWrites, server, setBy>>

\* line 325
TypeNewEmployeeId(ext) ==
  /\ Rendered
  /\ showAddEmployee
  /\ newEmployeeId' = ext
  /\ last' = Event("TypeNewEmployeeId", 0)
  /\ alertMsg' = NoAlert
  /\ UNCHANGED <<snapshot, loading, showAddEmployee, editingEmployee, phase,
                 interval, cyc, nStarted, wr, nWrites, server, setBy>>

\* lines 335-338
CancelAddForm ==
  /\ Rendered
  /\ showAddEmployee
  /\ showAddEmployee' = FALSE
  /\ newEmployeeId' = ""
  /\ last' = Event("CancelAddForm", 0)
  /\ alertMsg' = NoAlert
  /\ UNCHANGED <<snapshot, loading, editingEmployee, phase, interval, cyc,
                 nStarted, wr, nWrites, server, setBy>>

\* line 422: the edit button of a row that is not the one being edited
BeginEdit(id) ==
  /\ Rendered
  /\ Row(id)
  /\ editingEmployee # id
  /\ editingEmployee' = id
  /\ last' = Event("BeginEdit", id)
  /\ alertMsg' = NoAlert
  /\ UNCHANGED <<snapshot, loading, addForm, phase, interval, cyc, nStarted,
                 wr, nWrites, server, setBy>>

\* CancelEdit that also calls fetchData
CancelEdit_Refreshes(id) ==
  /\ Rendered
  /\ Row(id)
  /\ editingEmployee = id
  /\ editingEmployee' = Null
  /\ fetchData("CancelEdit")
  /\ last' = Event("CancelEdit", id)
  /\ alertMsg' = NoAlert
  /\ UNCHANGED <<snapshot, loading, addForm, phase, interval,
                 wr, nWrites, server, setBy>>

\* line 413: the cancel button of the row being edited
CancelEdit(id) ==
  /\ Rendered
  /\ Row(id)
  /\ editingEmployee = id
  /\ editingEmployee' = Null
  /\ last' = Event("CancelEdit", id)
  /\ alertMsg' = NoAlert
  /\ UNCHANGED <<snapshot, loading, addForm, phase, interval, cyc, nStarted,
                 wr, nWrites, server, setBy>>

\* ---------------------------------------------------------------- writes sent
\* a fetch of a write endpoint: the request leaves and the caller suspends
Send(request) ==
  /\ nWrites < MaxWrites
  /\ nWrites' = nWrites + 1
  /\ wr' = [wr EXCEPT ![nWrites + 1] = request]

\* the caller of write w returns
DoneWrite(w, res) ==
  [wr[w] EXCEPT !.pc = "done", !.then = res, !.seen = setBy["employees"]]

\* lines 78-87, bound to the button of line 329
addEmployee ==
  /\ Rendered
  /\ showAddEmployee
  /\ Send([IdleWrite EXCEPT !.kind = "add", !.pc = "sent", !.ext = newEmployeeId])
  /\ last' = WriteEvent("addEmployee", nWrites + 1, "sent")
  /\ alertMsg' = NoAlert
  /\ UNCHANGED <<local, phase, interval, cyc, nStarted, server, setBy>>

\* lines 104-113: updateEmployee(id, updates) up to its await; updates holds
\* one field, multiplier (m, parsed from text) or active (a)
updateEmployee(id, field, m, a, text) ==
  /\ Send([IdleWrite EXCEPT !.kind = "patch", !.pc = "sent", !.id = id,
                            !.field = field, !.multiplier = Stringified(m),
                            !.active = a, !.draft = text])
  /\ last' = WriteEvent("updateEmployee", nWrites + 1, "sent")
  /\ alertMsg' = NoAlert
  /\ UNCHANGED <<local, phase, interval, cyc, nStarted, server, setBy>>

\* lines 404-407: the save button of the row being edited; text is the value
\* of the input of that row at that moment
SaveMultiplier(id, text) ==
  /\ Rendered
  /\ Row(id)
  /\ editingEmployee = id
  /\ updateEmployee(id, "multiplier", parseFloat(text), FALSE, text)

\* line 428: the toggle button of a row that is not being edited
ToggleActive(id) ==
  /\ Rendered
  /\ Row(id)
  /\ editingEmployee # id
  /\ updateEmployee(id, "active", 0, ~RowOf(id).active, "")

\* deleteEmployee without the return of line 126: the request is sent whatever
\* the operator answers
deleteEmployee_IgnoresAnswer(id, accept) ==
  /\ Rendered
  /\ Row(id)
  /\ editingEmployee # id
  /\ Send([IdleWrite EXCEPT !.kind = "delete", !.pc = "sent", !.id = id])
  /\ last' = WriteEvent("deleteEmployee", IF accept THEN nWrites + 1 ELSE 0,
                        IF accept THEN "sent" ELSE "declined")
  /\ alertMsg' = NoAlert
  /\ UNCHANGED <<local, phase, interval, cyc, nStarted, server, setBy>>

\* lines 125-134, bound to the button of line 434; accept is the answer to
\* window.confirm
deleteEmployee(id, accept) ==
  /\ Rendered
  /\ Row(id)
  /\ editingEmployee # id
  /\ IF accept
     THEN /\ Send([IdleWrite EXCEPT !.kind = "delete", !.pc = "sent", !.id = id])
          /\ last' = WriteEvent("deleteEmployee", nWrites + 1, "sent")
     ELSE /\ UNCHANGED <<wr, nWrites>>
          /\ last' = WriteEvent("deleteEmployee", 0, "declined")
  /\ alertMsg' = NoAlert
  /\ UNCHANGED <<local, phase, interval, cyc, nStarted, server, setBy>>

\* updateConfig with the fetchData of line 157 called before the await of
\* line 147
updateConfig_RefreshesAtOnce(newConfig) ==
  /\ Rendered
  /\ config # NullConfig
  /\ Send([IdleWrite EXCEPT !.kind = "config", !.pc = "sent", !.cfg = newConfig])
  /\ fetchData("updateConfig")
  /\ last' = WriteEvent("updateConfig", nWrites + 1, "sent")
  /\ alertMsg' = NoAlert
  /\ UNCHANGED <<local, phase, interval, server, setBy>>

\* lines 145-154, called by the form of lines 518-526, which exists once
\* config is not null (line 514)
updateConfig(newConfig) ==
  /\ Rendered
  /\ config # NullConfig
  /\ Send([IdleWrite EXCEPT !.kind = "config", !.pc = "sent", !.cfg = newConfig])
  /\ last' = WriteEvent("updateConfig", nWrites + 1, "sent")
  /\ alertMsg' = NoAlert
  /\ UNCHANGED <<local, phase, interval, cyc, nStarted, server, setBy>>

\* lines 166-175; no control of the view is bound to it in this file: it is
\* taken as an entry point the rendered view can call; accept is the answer to
\* window.confirm
triggerUpdate(accept) ==
  /\ Rendered
  /\ IF accept
     THEN /\ Send([IdleWrite EXCEPT !.kind = "trigger", !.pc = "sent"])
          /\ last' = WriteEvent("triggerUpdate", nWrites + 1, "sent")
     ELSE /\ UNCHANGED <<wr, nWrites>>
          /\ last' = WriteEvent("triggerUpdate", 0, "declined")
  /\ alertMsg' = NoAlert
  /\ UNCHANGED <<local, phase, interval, cyc, nStarted, server, setBy>>


\* ---------------------------------------------------------------- writes served
\* whether the server can apply the request of write w
Acceptable(w) ==
  CASE wr[w].kind = "add" ->
         /\ IdOf(wr[w].ext) \in Ids
         /\ srvEmployees[IdOf(wr[w].ext)] = Absent
    [] wr[w].kind = "patch" /\ wr[w].field = "multiplier" ->
         /\ srvEmployees[wr[w].id] # Absent
         /\ wr[w].multiplier \in Multipliers
    [] wr[w].kind \in {"patch", "delete"} -> srvEmployees[wr[w].id] # Absent
    [] OTHER -> TRUE

\* the server's employees after it has applied the request of write w
Applied(w) ==
  CASE wr[w].kind = "add" ->
         [srvEmployees EXCEPT ![IdOf(wr[w].ext)] = [multiplier |-> 1, active |-> TRUE]]
    [] wr[w].kind = "patch" /\ wr[w].field = "multiplier" ->
         [srvEmployees EXCEPT ![wr[w].id].multiplier = wr[w].multiplier]
    [] wr[w].kind = "patch" /\ wr[w].field = "active" ->
         [srvEmployees EXCEPT ![wr[w].id].active = wr[w].active]
    [] wr[w].kind = "delete" -> [srvEmployees EXCEPT ![wr[w].id] = Absent]
    [] OTHER -> srvEmployees

\* the server applies a write and then answers it with success
WriteAccepted(w) ==
  /\ wr[w].pc = "sent"
  /\ Acceptable(w)
  /\ srvEmployees' = Applied(w)
  /\ srvConfig' = IF wr[w].kind = "config" THEN wr[w].cfg ELSE srvConfig
  /\ wr' = [wr EXCEPT ![w].pc = "ok"]
  /\ last' = WriteEvent("WriteAccepted", w, "none")
  /\ alertMsg' = NoAlert
  /\ UNCHANGED <<local, phase, interval, cyc, nStarted, nWrites, setBy>>

\* the server answers a write with a non-success status and applies nothing
WriteRefused(w) ==
  /\ wr[w].pc = "sent"
  /\ wr' = [wr EXCEPT ![w].pc = "bad"]
  /\ last' = WriteEvent("WriteRefused", w, "none")
  /\ alertMsg' = NoAlert
  /\ UNCHANGED <<local, phase, interval, cyc, nStarted, nWrites, server, setBy>>

\* ---------------------------------------------------------------- continuations
\* addEmployeeThen without the setNewEmployeeId('') of line 91
addEmployeeThen_KeepsTypedId(w) ==
  /\ wr[w].kind = "add"
  /\ wr[w].pc \in {"ok", "bad"}
  /\ IF wr[w].pc = "ok"
     THEN /\ showAddEmployee' = FALSE
          /\ newEmployeeId' = newEmployeeId
          /\ fetchData("addEmployee")
          /\ wr' = [wr EXCEPT ![w] = DoneWrite(w, "ok")]
          /\ last' = WriteEvent("addEmployee", w, "ok")
     ELSE /\ wr' = [wr EXCEPT ![w].pc = "errjson"]
          /\ last' = WriteEvent("addEmployee", w, "body")
          /\ UNCHANGED <<addForm, cyc, nStarted>>
  /\ alertMsg' = NoAlert
  /\ UNCHANGED <<snapshot, loading, editingEmployee, phase, interval, nWrites,
                 server, setBy>>

\* lines 89-96: the response of POST /api/employees has arrived
addEmployeeThen(w) ==
  /\ wr[w].kind = "add"
  /\ wr[w].pc \in {"ok", "bad"}
  /\ IF wr[w].pc = "ok"
     THEN /\ showAddEmployee' = FALSE
          /\ newEmployeeId' = ""
          /\ fetchData("addEmployee")
          /\ wr' = [wr EXCEPT ![w] = DoneWrite(w, "ok")]
          /\ last' = WriteEvent("addEmployee", w, "ok")
     ELSE /\ wr' = [wr EXCEPT ![w].pc = "errjson"]
          /\ last' = WriteEvent("addEmployee", w, "body")
          /\ UNCHANGED <<addForm, cyc, nStarted>>
  /\ alertMsg' = NoAlert
  /\ UNCHANGED <<snapshot, loading, editingEmployee, phase, interval, nWrites,
                 server, setBy>>

\* lines 94-95 and 97-99: response.json() of the non-success response settles:
\* a body with a detail, a body without one, or no JSON at all
addEmployeeError(w) ==
  /\ wr[w].kind = "add"
  /\ wr[w].pc = "errjson"
  /\ \E body \in {"detail", "nodetail", "nojson"} :
       alertMsg' = CASE body = "detail" -> "Nie mozna dodac pracownika: detail"
                     [] body = "nodetail" -> "Nie mozna dodac pracownika: Sprawdz ID."
                     [] body = "nojson" -> "Blad polaczenia z serwerem."
  /\ wr' = [wr EXCEPT ![w] = DoneWrite(w, "bad")]
  /\ last' = WriteEvent("addEmployee", w, "bad")
  /\ UNCHANGED <<local, phase, interval, cyc, nStarted, nWrites, server, setBy>>

\* lines 97-100: the request failed in transport
addEmployeeCatch(w) ==
  /\ wr[w].kind = "add"
  /\ wr[w].pc = "sent"
  /\ alertMsg' = "Blad polaczenia z serwerem."
  /\ wr' = [wr EXCEPT ![w] = DoneWrite(w, "fail")]
  /\ last' = WriteEvent("addEmployee", w, "fail")
  /\ UNCHANGED <<local, phase, interval, cyc, nStarted, nWrites, server, setBy>>

\* updateEmployeeThen with setEditingEmployee(null) outside the test of line 115
updateEmployeeThen_AlwaysClears(w) ==
  /\ wr[w].kind = "patch"
  /\ wr[w].pc \in {"ok", "bad"}
  /\ editingEmployee' = Null
  /\ IF wr[w].pc = "ok"
     THEN fetchData("updateEmployee")
     ELSE UNCHANGED <<cyc, nStarted>>
  /\ wr' = [wr EXCEPT ![w] = DoneWrite(w, wr[w].pc)]
  /\ last' = WriteEvent("updateEmployee", w, wr[w].pc)
  /\ alertMsg' = NoAlert
  /\ UNCHANGED <<snapshot, loading, addForm, phase, interval, nWrites, server,
                 setBy>>

\* lines 115-118
updateEmployeeThen(w) ==
  /\ wr[w].kind = "patch"
  /\ wr[w].pc \in {"ok", "bad"}
  /\ IF wr[w].pc = "ok"
     THEN /\ editingEmployee' = Null
          /\ fetchData("updateEmployee")
     ELSE UNCHANGED <<editingEmployee, cyc, nStarted>>
  /\ wr' = [wr EXCEPT ![w] = DoneWrite(w, wr[w].pc)]
  /\ last' = WriteEvent("updateEmployee", w, wr[w].pc)
  /\ alertMsg' = NoAlert
  /\ UNCHANGED <<snapshot, loading, addForm, phase, interval, nWrites, server,
                 setBy>>

\* lines 119-121
updateEmployeeCatch(w) ==
  /\ wr[w].kind = "patch"
  /\ wr[w].pc = "sent"
  /\ wr' = [wr EXCEPT ![w] = DoneWrite(w, "fail")]
  /\ last' = WriteEvent("updateEmployee", w, "fail")
  /\ alertMsg' = NoAlert
  /\ UNCHANGED <<local, phase, interval, cyc, nStarted, nWrites, server, setBy>>

\* deleteEmployeeThen without the fetchData of line 137
deleteEmployeeThen_NoRefresh(w) ==
  /\ wr[w].kind = "delete"
  /\ wr[w].pc \in {"ok", "bad"}
  /\ UNCHANGED <<cyc, nStarted>>
  /\ wr' = [wr EXCEPT ![w] = DoneWrite(w, wr[w].pc)]
  /\ last' = WriteEvent("deleteEmployee", w, wr[w].pc)
  /\ alertMsg' = NoAlert
  /\ UNCHANGED <<local, phase, interval, nWrites, server, setBy>>

\* deleteEmployeeThen that also takes the row out of the local list
deleteEmployeeThen_RemovesLocally(w) ==
  /\ wr[w].kind = "delete"
  /\ wr[w].pc \in {"ok", "bad"}
  /\ IF wr[w].pc = "ok"
     THEN /\ fetchData("deleteEmployee")
          /\ employees' = {e \in employees : e.id # wr[w].id}
     ELSE UNCHANGED <<cyc, nStarted, employees>>
  /\ wr' = [wr EXCEPT ![w] = DoneWrite(w, wr[w].pc)]
  /\ last' = WriteEvent("deleteEmployee", w, wr[w].pc)
  /\ alertMsg' = NoAlert
  /\ UNCHANGED <<stats, config, logs, loading, addForm, editingEmployee, phase,
                 interval, nWrites, server, setBy>>

\* lines 136-138
deleteEmployeeThen(w) ==
  /\ wr[w].kind = "delete"
  /\ wr[w].pc \in {"ok", "bad"}
  /\ IF wr[w].pc = "ok"
     THEN fetchData("deleteEmployee")
     ELSE UNCHANGED <<cyc, nStarted>>
  /\ wr' = [wr EXCEPT ![w] = DoneWrite(w, wr[w].pc)]
  /\ last' = WriteEvent("deleteEmployee", w, wr[w].pc)
  /\ alertMsg' = NoAlert
  /\ UNCHANGED <<local, phase, interval, nWrites, server, setBy>>

\* lines 139-141
deleteEmployeeCatch(w) ==
  /\ wr[w].kind = "delete"
  /\ wr[w].pc = "sent"
  /\ wr' = [wr EXCEPT ![w] = DoneWrite(w, "fail")]
  /\ last' = WriteEvent("deleteEmployee", w, "fail")
  /\ alertMsg' = NoAlert
  /\ UNCHANGED <<local, phase, interval, cyc, nStarted, nWrites, server, setBy>>

\* lines 156-159
updateConfigThen(w) ==
  /\ wr[w].kind = "config"
  /\ wr[w].pc \in {"ok", "bad"}
  /\ IF wr[w].pc = "ok"
     THEN /\ fetchData("updateConfig")
          /\ alertMsg' = "Konfiguracja zaktualizowana!"
     ELSE /\ UNCHANGED <<cyc, nStarted>>
          /\ alertMsg' = NoAlert
  /\ wr' = [wr EXCEPT ![w] = DoneWrite(w, wr[w].pc)]
  /\ last' = WriteEvent("updateConfig", w, wr[w].pc)
  /\ UNCHANGED <<local, phase, interval, nWrites, server, setBy>>

\* lines 160-162
updateConfigCatch(w) ==
  /\ wr[w].kind = "config"
  /\ wr[w].pc = "sent"
  /\ wr' = [wr EXCEPT ![w] = DoneWrite(w, "fail")]
  /\ last' = WriteEvent("updateConfig", w, "fail")
  /\ alertMsg' = NoAlert
  /\ UNCHANGED <<local, phase, interval, cyc, nStarted, nWrites, server, setBy>>

\* lines 177-179
triggerUpdateThen(w) ==
  /\ wr[w].kind = "trigger"
  /\ wr[w].pc \in {"ok", "bad"}
  /\ alertMsg' = IF wr[w].pc = "ok" THEN "Aktualizacja zostala uruchomiona!"
                 ELSE NoAlert
  /\ wr' = [wr EXCEPT ![w] = DoneWrite(w, wr[w].pc)]
  /\ last' = WriteEvent("triggerUpdate", w, wr[w].pc)
  /\ UNCHANGED <<local, phase, interval, cyc, nStarted, nWrites, server, setBy>>

\* lines 180-182
triggerUpdateCatch(w) ==
  /\ wr[w].kind = "trigger"
  /\ wr[w].pc = "sent"
  /\ wr' = [wr EXCEPT ![w] = DoneWrite(w, "fail")]
  /\ last' = WriteEvent("triggerUpdate", w, "fail")
  /\ alertMsg' = NoAlert
  /\ UNCHANGED <<local, phase, interval, cyc, nStarted, nWrites, server, setBy>>

\* ---------------------------------------------------------------- specification
Init ==
  /\ stats = InitialStats
  /\ employees = {}
  /\ config = NullConfig
  /\ logs = <<>>
  /\ loading = TRUE
  /\ showAddEmployee = FALSE
  /\ newEmployeeId = ""
  /\ editingEmployee = Null
  /\ phase = "new"
  /\ interval = FALSE
  /\ cyc = [c \in 1..MaxStarts |-> IdleCycle]
  /\ nStarted = 0
  /\ wr = [w \in 1..MaxWrites |-> IdleWrite]
  /\ nWrites = 0
  /\ alertMsg = NoAlert
  /\ srvEmployees \in ServerStarts
  /\ srvConfig \in Configs
  /\ setBy = [r \in Resources |-> 0]
  /\ last = Event("Init", 0)

\* the poll scheduler and the fetch cycle
Scheduler ==
  \/ Mount
  \/ Tick
  \/ Unmount

Reads ==
  \/ \E c \in 1..MaxStarts : ReadsAnswered(c)
  \/ \E c \in 1..MaxStarts : FetchResolved(c)
  \/ \E c \in 1..MaxStarts : SetStats(c)
  \/ \E c \in 1..MaxStarts : SetEmployees(c)
  \/ \E c \in 1..MaxStarts : SetConfig(c)
  \/ \E c \in 1..MaxStarts : SetLogs(c)

ReadFaults ==
  \/ \E c \in 1..MaxStarts : \E bad \in SUBSET Resources : ReadsRefused(c, bad)
  \/ \E c \in 1..MaxStarts : \E r \in Resources : ReadFails(c, r)
  \/ \E c \in 1..MaxStarts : JsonRejected(c)

View ==
  \/ OpenAddForm
  \/ \E ext \in ExternalIds : TypeNewEmployeeId(ext)
  \/ CancelAddForm
  \/ \E id \in Ids : BeginEdit(id)
  \/ \E id \in Ids : CancelEdit(id)

Writes ==
  \/ addEmployee
  \/ \E id \in Ids : \E text \in Drafts : SaveMultiplier(id, text)
  \/ \E id \in Ids : ToggleActive(id)
  \/ \E id \in Ids : \E accept \in BOOLEAN : deleteEmployee(id, accept)
  \/ \E newConfig \in Configs : updateConfig(newConfig)
  \/ \E accept \in BOOLEAN : triggerUpdate(accept)
  \/ \E w \in 1..MaxWrites : WriteAccepted(w)
  \/ \E w \in 1..MaxWrites : WriteRefused(w)
  \/ \E w \in 1..MaxWrites : addEmployeeThen(w)
  \/ \E w \in 1..MaxWrites : addEmployeeError(w)
  \/ \E w \in 1..MaxWrites : addEmployeeCatch(w)
  \/ \E w \in 1..MaxWrites : updateEmployeeThen(w)
  \/ \E w \in 1..MaxWrites : updateEmployeeCatch(w)
  \/ \E w \in 1..MaxWrites : deleteEmployeeThen(w)
  \/ \E w \in 1..MaxWrites : deleteEmployeeCatch(w)
  \/ \E w \in 1..MaxWrites : updateConfigThen(w)
  \/ \E w \in 1..MaxWrites : updateConfigCatch(w)
  \/ \E w \in 1..MaxWrites : triggerUpdateThen(w)
  \/ \E w \in 1..MaxWrites : triggerUpdateCatch(w)

Next == Scheduler \/ Reads \/ ReadFaults \/ View \/ Writes

Spec == Init /\ [][Next]_vars

\* the scheduler and the fetch cycle alone, with every fault of a read
PollNext == Scheduler \/ Reads \/ ReadFaults
PollSpec == Init /\ [][PollNext]_vars

\* the scheduler and the fetch cycle, every read answered with success
FetchNext == Scheduler \/ Reads
FetchSpec == Init /\ [][FetchNext]_vars

\* the operator and the writes without the timer, every read answered with
\* success
WriteNext == Mount \/ Unmount \/ Reads \/ View \/ Writes
WriteSpec == Init /\ [][WriteNext]_vars

\* the operator and the writes without the timer, with every fault of a read
RetryNext == Mount \/ Unmount \/ Reads \/ ReadFaults \/ View \/ Writes
RetrySpec == Init /\ [][RetryNext]_vars

\* every step of fetchData invocation c and every answer to its reads
CycleStep(c) ==
  \/ ReadsAnswered(c)
  \/ \E bad \in SUBSET Resources : ReadsRefused(c, bad)
  \/ \E r \in Resources : ReadFails(c, r)
  \/ FetchResolved(c)
  \/ SetStats(c)
  \/ SetEmployees(c)
  \/ SetConfig(c)
  \/ SetLogs(c)
  \/ JsonRejected(c)

\* RetrySpec in which the effect of lines 71-75 runs after the first render,
\* every read settles and every continuation of fetchData is run by the event
\* loop
LoadSpec ==
  /\ Init
  /\ [][RetryNext]_vars
  /\ WF_vars(Mount)
  /\ \A c \in 1..MaxStarts : WF_vars(CycleStep(c))

\* a change of multiplier racing with the timer: the server applies every
\* write before it answers, every read is answered with success
RaceNext ==
  \/ Mount
  \/ Tick
  \/ Reads
  \/ \E id \in Ids : BeginEdit(id)
  \/ \E id \in Ids : \E text \in Drafts : SaveMultiplier(id, text)
  \/ \E w \in 1..MaxWrites : WriteAccepted(w)
  \/ \E w \in 1..MaxWrites : updateEmployeeThen(w)
RaceSpec == Init /\ [][RaceNext]_vars


\* ================================================================ claims
\* the value slice r holds
Slice(r) ==
  CASE r = "stats" -> stats
    [] r = "employees" -> employees
    [] r = "config" -> config
    [] r = "logs" -> logs

\* the value the response of read r of invocation c carries for its slice
Carried(c, r) ==
  IF r = "stats" THEN StatsFrom(cyc[c].res[r].body) ELSE cyc[c].res[r].body

\* the steps in which fetchData runs after line 33
CycleSteps ==
  {"FetchResolved", "SetStats", "SetEmployees", "SetConfig", "SetLogs",
   "JsonRejected"}
Setters == {"SetStats", "SetEmployees", "SetConfig", "SetLogs"}
WriteOps ==
  {"addEmployee", "updateEmployee", "deleteEmployee", "updateConfig",
   "triggerUpdate"}

\* C1 (as claimed): whenever the view shows the snapshot, the four slices were
\* all set by one and the same fetchData invocation, which has completed, or
\* are all still the initial values.
C1_Atomicity ==
  ~loading =>
    /\ \A r, q \in Resources : setBy[r] = setBy[q]
    /\ \A r \in Resources : setBy[r] # 0 => cyc[setBy[r]].pc = "done"

\* C2: in an invocation whose four reads are all answered, exactly one of
\* them with a non-success status, every step of the invocation sets a slice
\* only to the value its own success response carries and leaves every other
\* slice, the one of the refused read among them, as it was; when the
\* invocation ends after reading its bodies it has set exactly the three
\* slices answered with success.
C2_PartialFailureIsolation ==
  [][\A c \in 1..MaxStarts :
       ( /\ last'.n = c
         /\ last'.op \in CycleSteps
         /\ Cardinality({r \in Resources : cyc[c].res[r].st = "bad"}) = 1
         /\ Cardinality({r \in Resources : cyc[c].res[r].st = "ok"}) = 3 )
       => LET new == last'.applied \ cyc[c].applied
          IN /\ \A r \in new :
                  cyc[c].res[r].st = "ok" /\ Slice(r)' = Carried(c, r)
             /\ \A r \in Resources \ new : Slice(r)' = Slice(r)
             /\ (cyc'[c].pc = "done" /\ last'.op # "JsonRejected")
                  => last'.applied = {r \in Resources : cyc[c].res[r].st = "ok"}
    ]_vars

\* C2 witness: an invocation has just ended whose config read was refused and
\* whose other three reads were applied, config keeping the value an earlier
\* invocation had set.
C2_Witness ==
  /\ last.op \in Setters
  /\ cyc[last.n].pc = "done"
  /\ last.st["config"] = "bad"
  /\ last.applied = {"stats", "employees", "logs"}
  /\ setBy["stats"] = last.n /\ setBy["employees"] = last.n
  /\ setBy["logs"] = last.n
  /\ setBy["config"] \notin {0, last.n}
  /\ config # NullConfig

\* C3: when a read of an invocation fails in transport, the invocation has set
\* no slice before, sets none in that step, and ends there, whatever the other
\* reads were answered.
C3_TransportFailureFallback ==
  [][last'.op = "ReadFails" =>
       /\ snapshot' = snapshot
       /\ last'.applied = {}
       /\ cyc'[last'.n].pc = "done"
       /\ loading' = FALSE
    ]_vars

\* C3 witness: a read has just failed in transport while other reads of the
\* same invocation had been answered with success, after an earlier invocation
\* had filled the snapshot.
C3_Witness ==
  /\ last.op = "ReadFails"
  /\ \E r \in Resources : last.st[r] = "ok"
  /\ cyc[last.n].pc = "done"
  /\ \A r \in Resources : setBy[r] \notin {0, last.n}

C5_NoEffectOnFailedWrite ==
  [][(last'.op \in WriteOps /\ last'.res \in {"bad", "body", "fail"}) =>
       /\ nStarted' = nStarted
       /\ snapshot' = snapshot
       /\ loading' = loading
       /\ addForm' = addForm
       /\ editingEmployee' = editingEmployee
    ]_vars

\* C5 witness: a patch sent from the row being edited has just been refused
\* and the row is still being edited.
C5_Witness ==
  /\ last.op = "updateEmployee"
  /\ last.res = "bad"
  /\ wr[last.n].field = "multiplier"
  /\ editingEmployee = wr[last.n].id

\* C6 (as claimed): when the caller of a write returns after a non-success
\* response, an alert has been raised by that step.
C6_FailureSurfaced ==
  (last.op \in WriteOps /\ last.res = "bad") => alertMsg # NoAlert

\* writes other than w that touch employee id
OthersTouch(w, id) ==
  \E v \in 1..MaxWrites \ {w} :
    /\ wr[v].pc # "idle"
    /\ \/ wr[v].kind \in {"patch", "delete"} /\ wr[v].id = id
       \/ wr[v].kind = "add" /\ IdOf(wr[v].ext) = id

\* C7 (as claimed): once a patch of the multiplier of id to m has been answered
\* with success, no other write touching id, the first employee list set after
\* the continuation of that write holds id with multiplier m.
C7_RefreshAfterWrite ==
  [][\A w \in 1..MaxWrites :
       ( /\ wr[w].pc = "done"
         /\ wr[w].kind = "patch"
         /\ wr[w].field = "multiplier"
         /\ wr[w].then = "ok"
         /\ ~OthersTouch(w, wr[w].id)
         /\ setBy["employees"] = wr[w].seen
         /\ setBy'["employees"] # setBy["employees"] )
       => \E e \in employees' :
            e.id = wr[w].id /\ e.multiplier = wr[w].multiplier
    ]_vars

\* C8 (as claimed): after the cleanup of the effect no step changes stats,
\* employees, config, logs or loading.
C8_DiscardAfterCancellation ==
  [][phase = "unmounted" => (snapshot' = snapshot /\ loading' = loading)]_vars

\* C9 (as claimed): at most one fetchData invocation is in flight.
C9_NoOverlappingCycles == Cardinality(InFlight) <= 1

\* the invocations the timer has started
TimerStarted == {c \in 1..MaxStarts : cyc[c].origin = "timer"}

\* C10: the effect starts the first invocation in the step that installs the
\* interval, before any tick; a tick happens only while the component is
\* mounted and starts exactly one invocation; once the cleanup has run the
\* interval is gone and the timer starts no invocation.
C10_PollingCadence ==
  [][/\ (phase = "new" /\ phase' # "new") =>
          /\ nStarted = 0 /\ nStarted' = 1
          /\ cyc'[1].pc = "await" /\ cyc'[1].origin = "mount"
          /\ interval'
     /\ (phase = "new" /\ phase' = "new") => nStarted' = 0
     /\ TimerStarted' # TimerStarted =>
          /\ phase = "mounted" /\ interval
          /\ nStarted' = nStarted + 1
          /\ TimerStarted' = TimerStarted \cup {nStarted'}
          /\ cyc'[nStarted'].pc = "await"
     /\ phase = "unmounted" => (~interval /\ TimerStarted' = TimerStarted)
     /\ last'.op = "Tick" => TimerStarted' # TimerStarted
    ]_vars

\* C10 witness: the timer has started an invocation, the cleanup has run,
\* steps have been taken since and more invocations could still be started.
C10_Witness ==
  /\ phase = "unmounted"
  /\ TimerStarted # {}
  /\ last.op # "Unmount"
  /\ nStarted < MaxStarts
  /\ Cardinality(InFlight) < MaxInFlight

\* C11 (as claimed): when the continuation of a successful patch of the active
\* flag of one employee runs while another employee is being edited, that
\* employee is still being edited afterwards.
C11_EditIsolation ==
  [][( /\ last'.op = "updateEmployee"
       /\ last'.res = "ok"
       /\ wr[last'.n].field = "active"
       /\ editingEmployee # Null
       /\ editingEmployee # wr[last'.n].id )
     => editingEmployee' = editingEmployee
    ]_vars

\* C12 (as claimed): when fetchData sets an employee list that does not hold
\* the employee being edited, no employee is being edited afterwards.
C12_StaleEditEviction ==
  [][( /\ last'.op = "SetEmployees"
       /\ editingEmployee # Null
       /\ ~\E e \in employees' : e.id = editingEmployee )
     => editingEmployee' = Null
    ]_vars

\* C13: a step of deleteEmployee or triggerUpdate in which the operator
\* declines the confirmation sends no request, starts no fetchData invocation
\* and leaves the slices, loading, the add form and the edit target as they
\* were; a request to delete or to trigger leaves only in a step of its own
\* entry point in which the operator accepted.
C13_ConfirmationGating ==
  [][/\ (last'.op \in {"deleteEmployee", "triggerUpdate"} /\ last'.res = "declined")
          => /\ nWrites' = nWrites
             /\ \A w \in 1..MaxWrites : wr'[w].pc = wr[w].pc
             /\ nStarted' = nStarted
             /\ snapshot' = snapshot
             /\ loading' = loading
             /\ addForm' = addForm
             /\ editingEmployee' = editingEmployee
     /\ \A w \in 1..MaxWrites :
          (wr[w].pc = "idle" /\ wr'[w].pc # "idle"
             /\ wr'[w].kind \in {"delete", "trigger"})
          => /\ last'.res = "sent"
             /\ last'.n = w
             /\ last'.op = IF wr'[w].kind = "delete" THEN "deleteEmployee"
                            ELSE "triggerUpdate"
    ]_vars

\* C13 witness: the operator has just declined to delete a row while the add
\* form was open with an identifier typed, and no request has been sent.
C13_Witness ==
  /\ last.op = "deleteEmployee"
  /\ last.res = "declined"
  /\ showAddEmployee
  /\ newEmployeeId # ""
  /\ nWrites = 0

\* C14 (as claimed): no request to add an employee carries the empty string as
\* its external identifier.
C14_AddEmployeePrecondition ==
  \A w \in 1..MaxWrites : wr[w].kind = "add" => wr[w].ext # ""

\* C15: a slice changes only in the step of fetchData that calls its setter;
\* no step of a write entry point, of the view or of the scheduler changes
\* stats, employees, config or logs.
C15_SingleWriter ==
  [][\A r \in Resources :
       Slice(r)' # Slice(r) =>
         /\ last'.op \in Setters
         /\ r \in last'.applied \ cyc[last'.n].applied
         /\ Slice(r)' = Carried(last'.n, r)
    ]_vars

\* C15 witness: a delete has just been answered with success and the row of
\* the deleted employee is still in the local list.
C15_Witness ==
  /\ last.op = "deleteEmployee"
  /\ last.res = "ok"
  /\ Row(wr[last.n].id)
  /\ srvEmployees[wr[last.n].id] = Absent

\* C16: a fetchData invocation called by a write entry point starts in the
\* step that handles the success response of that write, with its four reads
\* not yet answered.
C16_CausalOrdering ==
  [][\A c \in 1..MaxStarts :
       (cyc[c].pc = "idle" /\ cyc'[c].pc # "idle" /\ cyc'[c].origin \in WriteOps)
       => /\ last'.op = cyc'[c].origin
          /\ last'.res = "ok"
          /\ wr[last'.n].pc = "ok"
          /\ wr'[last'.n].pc = "done"
          /\ \A r \in Resources : cyc'[c].res[r].st = "pending"
    ]_vars

\* C16 witness: the reads of the invocation started by a successful change of
\* a multiplier have been answered, and carry the changed multiplier.
C16_Witness ==
  /\ nStarted > 0
  /\ cyc[nStarted].origin = "updateEmployee"
  /\ cyc[nStarted].pc = "await"
  /\ cyc[nStarted].res["employees"].st = "ok"
  /\ \E w \in 1..MaxWrites :
       /\ wr[w].then = "ok"
       /\ wr[w].field = "multiplier"
       /\ \E e \in cyc[nStarted].res["employees"].body :
            e.id = wr[w].id /\ e.multiplier = wr[w].multiplier

\* C17 (as claimed): when the call made by the save button returns, whatever
\* the response, no employee is being edited.
C17_CommitEndsEditing ==
  [][( /\ last'.op = "updateEmployee"
       /\ last'.res \in {"ok", "bad", "fail"}
       /\ wr[last'.n].field = "multiplier" )
     => editingEmployee' = Null
    ]_vars

\* C17 (amended): the save button sends one patch for the employee being
\* edited whose body holds the multiplier alone, the number parsed from the
\* text of the input (null when the text is empty), and leaves the edit target
\* as it is; the edit target becomes null when a success response of
\* updateEmployee is handled and stays as it is when the patch is refused or
\* fails; a successful add-employee closes the add form and clears
\* the typed identifier.
C17_CommitOfRowEdit ==
  [][/\ ( /\ last'.op = "updateEmployee"
          /\ last'.res = "sent"
          /\ wr'[last'.n].field = "multiplier" )
        => /\ nWrites' = nWrites + 1
           /\ last'.n = nWrites'
           /\ wr'[last'.n].kind = "patch"
           /\ wr'[last'.n].id = editingEmployee
           /\ wr'[last'.n].draft = "1" => wr'[last'.n].multiplier = 1
           /\ wr'[last'.n].draft = "2" => wr'[last'.n].multiplier = 2
           /\ wr'[last'.n].draft = "" => wr'[last'.n].multiplier = Null
           /\ editingEmployee' = editingEmployee
     /\ (last'.op = "updateEmployee" /\ last'.res = "ok")
        => editingEmployee' = Null
     /\ (last'.op = "updateEmployee" /\ last'.res \in {"bad", "fail"})
        => editingEmployee' = editingEmployee
     /\ (last'.op = "addEmployee" /\ last'.res = "ok")
        => (showAddEmployee' = FALSE /\ newEmployeeId' = "")
    ]_vars

\* C17 witness: the text "2" was saved for the employee being edited, the
\* patch was answered with success and no employee is being edited.
C17_Witness ==
  /\ last.op = "updateEmployee"
  /\ last.res = "ok"
  /\ wr[last.n].draft = "2"
  /\ wr[last.n].multiplier = 2
  /\ editingEmployee = Null

\* C18 (as claimed): the edit target never moves from one employee to another
\* in one step.
C18_EditTargetThroughNotEditing ==
  [][(editingEmployee # Null /\ editingEmployee' # Null)
       => editingEmployee' = editingEmployee]_vars

\* C19: the cancel button of the row being edited sets the edit target to
\* null, sends no request, starts no fetchData invocation and leaves the four
\* slices, loading and the add form as they were.
C19_CancelOfRowEdit ==
  [][last'.op = "CancelEdit" =>
       /\ editingEmployee = last'.n
       /\ editingEmployee' = Null
       /\ nWrites' = nWrites
       /\ \A w \in 1..MaxWrites : wr'[w].pc = wr[w].pc
       /\ nStarted' = nStarted
       /\ \A c \in 1..MaxStarts : cyc'[c].pc = cyc[c].pc
       /\ snapshot' = snapshot
       /\ loading' = loading
       /\ addForm' = addForm
    ]_vars

\* C19 witness: an edit has just been cancelled, no request was ever sent and
\* only the invocation of the effect has been started.
C19_Witness ==
  /\ last.op = "CancelEdit"
  /\ editingEmployee = Null
  /\ nWrites = 0
  /\ nStarted = 1

\* C20: a write request leaves only in the step of an operator action, one
\* per action, and is never sent again by its own caller; a fetchData
\* invocation is started only by the effect, by a tick of the interval or by
\* the continuation of a successful write, issues its four reads once, and
\* after a failure of a read or of a write no request is sent and no
\* invocation is started by the failed call.
C20_NoAutomaticRetry ==
  [][/\ nWrites' \in {nWrites, nWrites + 1}
     /\ nWrites' = nWrites + 1 => (last'.op \in WriteOps /\ last'.res = "sent")
     /\ \A w \in 1..MaxWrites :
          wr[w].pc # "idle" =>
            /\ wr'[w].pc # "idle"
            /\ wr'[w].pc = "sent" => wr[w].pc = "sent"
            /\ wr[w].pc = "done" => wr'[w].pc = "done"
     /\ nStarted' \in {nStarted, nStarted + 1}
     /\ nStarted' = nStarted + 1 =>
          \/ last'.op \in {"Mount", "Tick"}
          \/ last'.op \in WriteOps /\ last'.res = "ok"
     /\ \A c \in 1..MaxStarts :
          /\ cyc[c].pc = "done" => cyc'[c].pc = "done"
          /\ cyc[c].pc \notin {"idle", "done"} =>
               /\ cyc'[c].pc # "idle"
               /\ \A r \in Resources :
                    (cyc[c].res[r].st # "pending" /\ cyc'[c].pc # "done")
                      => cyc'[c].res[r].st = cyc[c].res[r].st
     /\ last'.op \in {"ReadFails", "JsonRejected"} =>
          (nStarted' = nStarted /\ nWrites' = nWrites /\ cyc'[last'.n].pc = "done")
     /\ (last'.op \in WriteOps /\ last'.res \in {"bad", "body", "fail"}) =>
          (nStarted' = nStarted /\ nWrites' = nWrites)
    ]_vars

\* C20 witness: a write has failed in transport after the effect's invocation
\* had ended without setting every slice (a read of it failed or was
\* refused), and nothing has been sent since: one write,
\* one invocation, both over.
C20_Witness ==
  /\ last.op \in WriteOps
  /\ last.res = "fail"
  /\ wr[last.n].pc = "done"
  /\ nWrites = 1
  /\ nStarted = 1
  /\ cyc[1].pc = "done"
  /\ \E r \in Resources : setBy[r] = 0

\* C21: loading is true until the effect has run; it becomes false only in the
\* step in which a fetchData invocation ends, and every step in which an
\* invocation ends, after setting all, some or none of the slices, leaves it
\* false; once false it is never true again, whatever step follows; and when
\* every read settles, loading eventually is false.
C21_LoadingFlag ==
  /\ [](phase = "new" => loading)
  /\ [][/\ ~loading => ~loading'
         /\ \A c \in 1..MaxStarts :
              ((cyc[c].pc \notin {"idle", "done"} /\ cyc'[c].pc = "done")
                 => ~loading')
         /\ (loading /\ ~loading') =>
              /\ last'.op \in CycleSteps \cup {"ReadFails"}
              /\ cyc[last'.n].pc \notin {"idle", "done"}
              /\ cyc'[last'.n].pc = "done"
       ]_vars
  /\ <>(~loading)

\* C21 witness: the invocation of the effect failed before setting any slice,
\* loading is false, and a write has since been sent, answered with success
\* and followed by an invocation that is still reading.
C21_Witness ==
  /\ ~loading
  /\ nStarted = 2
  /\ cyc[1].pc = "done"
  /\ cyc[2].pc \notin {"idle", "done"}
  /\ cyc[2].origin \in WriteOps
  /\ \A r \in Resources : setBy[r] = 0

\* the slices answered with success that come before position k in the body
\* of fetchData
OkBefore(c, k) ==
  {q \in Resources : Order[q] < k /\ cyc[c].res[q].st = "ok"}

\* C22: an invocation sets one slice per step, the one whose body it has just
\* read, after having set exactly the slices answered with success that come
\* before it in the order stats, employees, config, logs; when the body of a
\* success response cannot be read, the invocation ends in that step: no slice
\* changes, the slices it had set are those answered with success before that
\* position, loading is false and no alert is raised.
C22_ApplyOrder ==
  [][\A c \in 1..MaxStarts :
       /\ (last'.n = c /\ last'.op \in Setters) =>
            /\ cyc[c].pc \in Resources
            /\ \A r \in Resources :
                 cyc[c].pc = r =>
                   /\ cyc[c].res[r].st = "ok"
                   /\ cyc[c].applied = OkBefore(c, Order[r])
                   /\ last'.applied = cyc[c].applied \cup {r}
                   /\ Slice(r)' = Carried(c, r)
                   /\ \A q \in Resources \ {r} : Slice(q)' = Slice(q)
       /\ (last'.n = c /\ last'.op = "JsonRejected") =>
            /\ cyc[c].pc \in Resources
            /\ \A r \in Resources :
                 cyc[c].pc = r =>
                   /\ cyc[c].res[r].st = "ok"
                   /\ cyc[c].applied = OkBefore(c, Order[r])
            /\ last'.applied = cyc[c].applied
            /\ snapshot' = snapshot
            /\ setBy' = setBy
            /\ cyc'[c].pc = "done"
            /\ ~loading'
            /\ alertMsg' = NoAlert
    ]_vars

\* C22 witness: the body of the config response of an invocation could not be
\* read after the invocation had set stats and employees; config and logs are
\* those an earlier invocation set, loading is false and no alert is shown.
C22_Witness ==
  /\ last.op = "JsonRejected"
  /\ last.st["config"] = "ok"
  /\ last.applied = {"stats", "employees"}
  /\ cyc[last.n].pc = "done"
  /\ setBy["stats"] = last.n /\ setBy["employees"] = last.n
  /\ setBy["config"] \notin {0, last.n}
  /\ setBy["logs"] \notin {0, last.n}
  /\ ~loading
  /\ alertMsg = NoAlert

====
